---- MODULE Spec2Model ----
(***************************************************************************)
(* Model of DocumentationGenerator (src/generate-docs.js): the run()       *)
(* pipeline initialize -> analyzeCodebase -> generateDocumentation ->      *)
(* validateDocumentation, the two scoring functions and the per-guide      *)
(* generation loop.                                                        *)
(*                                                                         *)
(* Numbers.  Confidence scores are held in tenths (0.4 is 4, 1.0 is 10):   *)
(* the code only ever adds 0.4, 0.4 and 0.2 in that order and compares the *)
(* sums, and the double sums it can form (0, 0.2, 0.4, 0.6000000000000001, *)
(* 0.8, 1) are ordered as the tenths are.  Completeness scores are exact   *)
(* fractions [num, den], compared by cross-multiplication.                 *)
(***************************************************************************)
EXTENDS Integers, Sequences, FiniteSets, TLC

\* ------------------------------------------------------------- bounds
\* longest patterns array an architecture result holds for one domain
MaxPatterns == 2
\* longest examples array a code-extraction result holds for one domain
MaxExamples == 2
\* how many domain keys the analysed project has material for (scoring runs)
MaxScored == 1
\* how many different single-domain projects the full pipeline is run on
MaxProjects == 1

\* how many guides of a finished batch failed, where validation is unfolded
MaxFailedGuides == 1
\* how many guides a validation pass can find below threshold
MaxFlagged == 1

\* ---------------------------------------------------- program constants
\* extraction.maxExamplesPerDomain of the shipped configuration
MaxExamplesPerDomain == 5
\* validation.confidenceThreshold of the shipped configuration, in tenths
ConfidenceThreshold == 7
\* score += 0.4, in tenths
PatternWeight == 4
\* score += 0.4, in tenths
ExampleWeight == 4
\* score += 0.2, in tenths
ConfigWeight == 2
\* Math.min(score, 1.0), in tenths
ConfidenceCap == 10
\* this.config.ai.rateLimitDelay || 100
DefaultRateLimitDelay == 100
\* "rateLimitDelay": 100 of the shipped configuration
ConfiguredRateLimitDelay == 100

\* the domains array of calculateConfidenceScores, in forEach order
Domains ==
  << "authentication", "components", "state", "backgroundJobs",
     "fileStorage", "database", "errorHandling", "testing",
     "integration", "deployment" >>

DomainSet == {Domains[i] : i \in 1..Len(Domains)}

\* keys an architecture.patterns object can carry: the ten domains and the
\* "api" rule set that the shipped architecturalPatterns table also defines
PatternKeys == DomainSet \cup {"api"}

\* the guides array of generateDocumentation, in source order
Guides ==
  << [name |-> "authentication-architecture", priority |-> 1],
     [name |-> "component-architecture", priority |-> 1],
     [name |-> "state-management-architecture", priority |-> 1],
     [name |-> "background-jobs-architecture", priority |-> 2],
     [name |-> "file-storage-architecture", priority |-> 2],
     [name |-> "database-architecture", priority |-> 2],
     [name |-> "error-handling-architecture", priority |-> 3],
     [name |-> "testing-architecture", priority |-> 3],
     [name |-> "integration-architecture", priority |-> 3],
     [name |-> "deployment-architecture", priority |-> 3] >>

GuideNames == {Guides[i].name : i \in 1..Len(Guides)}

\* guide.name.replace('-architecture', ''): the text left of the suffix
FocusArea(name) ==
  CASE name = "authentication-architecture" -> "authentication"
    [] name = "component-architecture" -> "component"
    [] name = "state-management-architecture" -> "state-management"
    [] name = "background-jobs-architecture" -> "background-jobs"
    [] name = "file-storage-architecture" -> "file-storage"
    [] name = "database-architecture" -> "database"
    [] name = "error-handling-architecture" -> "error-handling"
    [] name = "testing-architecture" -> "testing"
    [] name = "integration-architecture" -> "integration"
    [] name = "deployment-architecture" -> "deployment"

\* the four analyzer calls inside Promise.all, in the order they are made
Analyzers == << "techStack", "architecture", "codeExamples", "fileStructure" >>

AnalyzerSet == {Analyzers[i] : i \in 1..Len(Analyzers)}

\* ------------------------------------------------------------ helpers
Min(a, b) == IF a <= b THEN a ELSE b

Max(a, b) == IF a >= b THEN a ELSE b

\* obj[key]?.length and (obj[key] || []).length: a missing key counts 0
ArrayLength(obj, key) == IF key \in DOMAIN obj THEN obj[key] ELSE 0

\* fractions
Zero == [num |-> 0, den |-> 1]

One == [num |-> 1, den |-> 1]

Ratio(n, d) == [num |-> n, den |-> d]

RatEq(a, b) == a.num * b.den = b.num * a.den

RatLeq(a, b) == a.num * b.den <= b.num * a.den

\* Math.min(x, 1.0) on a fraction
RatMin1(x) == IF RatLeq(x, One) THEN x ELSE One

\* ------------------------------------------------------------ scoring
\* faulty variant: the configuration term is added when the configuration is absent
DomainConfidenceInvertedConfig(techStack, architecture, codeExamples, domain) ==
  LET hasPatterns == ArrayLength(architecture.patterns, domain) > 0
      hasExamples == ArrayLength(codeExamples, domain) > 0
      hasConfig == domain \in techStack.configurations
      s1 == IF hasPatterns THEN PatternWeight ELSE 0
      s2 == IF hasExamples THEN s1 + ExampleWeight ELSE s1
      s3 == IF ~hasConfig THEN s2 + ConfigWeight ELSE s2
  IN  Min(s3, ConfidenceCap)

\* faulty variant: the examples term overwrites the score instead of adding to it
DomainConfidenceExamplesOverwrite(techStack, architecture, codeExamples, domain) ==
  LET hasPatterns == ArrayLength(architecture.patterns, domain) > 0
      hasExamples == ArrayLength(codeExamples, domain) > 0
      hasConfig == domain \in techStack.configurations
      s1 == IF hasPatterns THEN PatternWeight ELSE 0
      s2 == IF hasExamples THEN ExampleWeight ELSE s1
      s3 == IF hasConfig THEN s2 + ConfigWeight ELSE s2
  IN  Min(s3, ConfidenceCap)

\* body of domains.forEach in calculateConfidenceScores
DomainConfidence(techStack, architecture, codeExamples, domain) ==
  LET hasPatterns == ArrayLength(architecture.patterns, domain) > 0
      hasExamples == ArrayLength(codeExamples, domain) > 0
      hasConfig == domain \in techStack.configurations
      s1 == IF hasPatterns THEN PatternWeight ELSE 0
      s2 == IF hasExamples THEN s1 + ExampleWeight ELSE s1
      s3 == IF hasConfig THEN s2 + ConfigWeight ELSE s2
  IN  Min(s3, ConfidenceCap)

calculateConfidenceScores(techStack, architecture, codeExamples) ==
  [domain \in DomainSet |->
     DomainConfidence(techStack, architecture, codeExamples, domain)]

\* faulty variant: the clamp Math.min(.., 1.0) is left out
DomainCompletenessNoClamp(architecture, codeExamples, domain) ==
  LET patterns == ArrayLength(architecture.patterns, domain)
      examples == ArrayLength(codeExamples, domain)
  IN  IF patterns > 0
        THEN Ratio(examples, Max(patterns, 1))
        ELSE Zero

\* faulty variant: the quotient is an integer division
DomainCompletenessFloored(architecture, codeExamples, domain) ==
  LET patterns == ArrayLength(architecture.patterns, domain)
      examples == ArrayLength(codeExamples, domain)
  IN  IF patterns > 0
        THEN RatMin1(Ratio(examples \div Max(patterns, 1), 1))
        ELSE Zero

\* body of Object.keys(architecture.patterns).forEach in
\* calculateCompletenessScores
DomainCompleteness(architecture, codeExamples, domain) ==
  LET patterns == ArrayLength(architecture.patterns, domain)
      examples == ArrayLength(codeExamples, domain)
  IN  IF patterns > 0
        THEN RatMin1(Ratio(examples, Max(patterns, 1)))
        ELSE Zero

calculateCompletenessScores(architecture, codeExamples) ==
  [domain \in DOMAIN architecture.patterns |->
     DomainCompleteness(architecture, codeExamples, domain)]

\* ------------------------------------------------------------ state
VARIABLES
  pc,            \* where run() stands
  projectRoot,   \* the analysed project: the domain keys it has material for
  config,        \* this.config: <<>> before loadConfig, then <<cfg>>
  started,       \* how many of the analyzer calls of Promise.all were made
  task,          \* analyzer -> "idle" | "running" | "resolved" | "rejected"
                 \*   | "hung" (a pending promise that will never settle)
  taskResult,    \* analyzer -> <<>> or <<value it resolved with>>
  analysis,      \* this.analysis: <<>> (null) or <<the analysis object>>
  sortedGuides,  \* generateDocumentation's sortedGuides (<<>> before the sort)
  results,       \* generateDocumentation's results array
  inflight,      \* guides whose aiClient.generateContent call is outstanding
  issued,        \* the collaborator's log: guide names requested, in order
  failures,      \* guides whose generation call or file write failed
  waited,        \* ms slept in this.delay since a generation call last ended
  written,       \* files written under outputPath
  validator,     \* validation pass -> "idle" | "running" | "resolved" | "rejected"
  findings,      \* validation pass -> <<>> or <<guides it found below threshold>>
  report,        \* what validateDocumentation returned: <<>> or <<pass -> findings>>
  runReturn,     \* what run() returned: <<>> or <<the results array>>
  argv,          \* process.argv.slice(2): the command line's arguments
  paths,         \* <<>> before the constructor, then <<[projectRoot,
                 \*   configPath, outputPath]>>: the generator's path fields
  catalog,       \* the architecture analyzer's input: FileEntries in
                 \*   emission order, each [path, satisfies (rule ids)]
  scanned,       \* how many catalog entries detect has gone through
  domainMatches, \* detect's output so far: [domain, file, rules] in order
  candidates,    \* the extractor's input: domain -> ranked candidates,
                 \*   each [file, syntaxOk]
  tried,         \* domain -> how many of its candidates extract has tried
  accepted,      \* domain -> files of the examples accepted so far
  thrown         \* <<>> or <<message>>: the error a call of
                 \*   generateDocumentation made on its own rejected with

vars ==
  << pc, projectRoot, config, started, task, taskResult, analysis,
     sortedGuides, results, inflight, issued, failures, waited, written,
     validator, findings, report, runReturn, argv, paths,
     catalog, scanned, domainMatches, candidates, tried, accepted, thrown >>

\* the inside of the architecture analyzer and of the code extractor
detectVars == << catalog, scanned, domainMatches >>

extractVars == << candidates, tried, accepted >>

\* the command line and the path fields the constructor derives from it
cliVars == << argv, paths >>

\* the state of validateDocumentation and of run()'s return
validationVars == << validator, findings, report, runReturn >>

\* the three validate calls inside Promise.all, in the order they are made
Validators == << "accuracy", "completeness", "consistency" >>

ValidatorSet == {Validators[i] : i \in 1..Len(Validators)}

\* ------------------------------------------------- analyzer results
\* what the analyzers can resolve with on a project that has material for
\* the domain keys S; keys outside S are absent from every result object
TechStackResults(S) == {[configurations |-> C] : C \in SUBSET S}

ArchitectureResults(S) ==
  {[patterns |-> p] : p \in UNION {[K -> 0..MaxPatterns] : K \in SUBSET S}}

CodeExampleResults(S) == [S -> 0..MaxExamples]

FileStructureResults(S) == {[totalFiles |-> Cardinality(S)]}

AnalyzerResults(t, S) ==
  CASE t = "techStack" -> TechStackResults(S)
    [] t = "architecture" -> ArchitectureResults(S)
    [] t = "codeExamples" -> CodeExampleResults(S)
    [] t = "fileStructure" -> FileStructureResults(S)

\* projects the whole pipeline is run on: one domain's material each
PipelineProjects == {{Domains[i]} : i \in 1..MaxProjects}

\* projects the scoring functions are applied to: any few domain keys
ScoredProjects == {S \in SUBSET PatternKeys : Cardinality(S) <= MaxScored}

\* configuration documents loadConfig can return: ai.rateLimitDelay set as
\* shipped, or left out (0 stands for a missing or zero value: both falsy)
ConfigDocuments ==
  {[rateLimitDelay |-> ConfiguredRateLimitDelay], [rateLimitDelay |-> 0]}

\* this.config.ai.rateLimitDelay || 100
RateLimitDelay(cfg) ==
  IF cfg.rateLimitDelay # 0 THEN cfg.rateLimitDelay ELSE DefaultRateLimitDelay

\* ---------------------------------------------------------- the sort
\* this.analysis.metadata.confidence[name.replace('-architecture','')] || 0
GuideConfidence(confidence, name) ==
  IF FocusArea(name) \in DOMAIN confidence
    THEN confidence[FocusArea(name)]
    ELSE 0

\* the comparator of guides.sort: negative when a sorts before b
CompareGuides(confidence, a, b) ==
  IF a.priority # b.priority
    THEN a.priority - b.priority
    ELSE GuideConfidence(confidence, b.name) - GuideConfidence(confidence, a.name)

\* stable insertion of g into the sorted sequence s
RECURSIVE InsertGuide(_, _, _)
InsertGuide(confidence, s, g) ==
  IF s = <<>> THEN <<g>>
  ELSE IF CompareGuides(confidence, s[Len(s)], g) <= 0
    THEN Append(s, g)
    ELSE Append(InsertGuide(confidence, SubSeq(s, 1, Len(s) - 1), g), s[Len(s)])

\* Array.prototype.sort with the comparator: a stable sort
RECURSIVE SortGuides(_, _)
SortGuides(confidence, s) ==
  IF s = <<>> THEN <<>>
  ELSE InsertGuide(confidence,
                   SortGuides(confidence, SubSeq(s, 1, Len(s) - 1)),
                   s[Len(s)])

\* ------------------------------------------------------ command line
\* the longest command line considered
MaxArgs == 4

OptionFlags ==
  {"--config", "--output", "--configPath", "--outputPath", "--projectRoot",
   "--guides"}

OptionValues ==
  {"custom-config.json", "../docs/reference", "../app",
   "authentication,components"}

ArgTokens == OptionFlags \cup OptionValues

\* args[i + 1] past the end of the array
Undefined == "undefined"

\* process.cwd()
Cwd == "."

DefaultConfigPath == "./config/analysis-config.json"

DefaultOutputPath == "./output/generated-docs"

\* args[i].replace('--', ''): the first "--" of the token is removed
StripDashes(token) ==
  CASE token = "--config" -> "config"
    [] token = "--output" -> "output"
    [] token = "--configPath" -> "configPath"
    [] token = "--outputPath" -> "outputPath"
    [] token = "--projectRoot" -> "projectRoot"
    [] token = "--guides" -> "guides"
    [] OTHER -> token

\* the for loop of the CLI block from index i (1-based) on: options[key]
\* = value for each pair, a later pair overwriting an earlier one
RECURSIVE ParseFrom(_, _, _)
ParseFrom(args, i, options) ==
  IF i > Len(args) THEN options
  ELSE LET key == StripDashes(args[i])
           value == IF i + 1 <= Len(args) THEN args[i + 1] ELSE Undefined
       IN  ParseFrom(args, i + 2,
                     [k \in DOMAIN options \cup {key} |->
                        IF k = key THEN value ELSE options[k]])

ParseArguments(args) == ParseFrom(args, 1, << >>)

\* options.name || fallback
OptionOr(options, name, fallback) ==
  IF name \in DOMAIN options /\ options[name] # Undefined
    THEN options[name]
    ELSE fallback

\* the constructor's three path fields
Constructor(options) ==
  [ projectRoot |-> OptionOr(options, "projectRoot", Cwd),
    configPath |-> OptionOr(options, "configPath", DefaultConfigPath),
    outputPath |-> OptionOr(options, "outputPath", DefaultOutputPath) ]

\* -------------------------------------------------------------- Init
\* the generator right after its constructor, about to run()
Init ==
  /\ pc = "initialize"
  /\ projectRoot \in PipelineProjects
  /\ config = <<>>
  /\ started = 0
  /\ task = [t \in AnalyzerSet |-> "idle"]
  /\ taskResult = [t \in AnalyzerSet |-> <<>>]
  /\ analysis = <<>>
  /\ sortedGuides = <<>>
  /\ results = <<>>
  /\ inflight = {}
  /\ issued = <<>>
  /\ failures = {}
  /\ waited = 0
  /\ written = {}
  /\ validator = [v \in ValidatorSet |-> "idle"]
  /\ findings = [v \in ValidatorSet |-> <<>>]
  /\ report = <<>>
  /\ runReturn = <<>>
  /\ thrown = <<>>
  /\ catalog = <<>>
  /\ scanned = 0
  /\ domainMatches = <<>>
  /\ candidates = <<>>
  /\ tried = <<>>
  /\ accepted = <<>>
  /\ argv = <<>>
  /\ paths = << Constructor(ParseArguments(argv)) >>

\* --------------------------------------------------------- initialize
\* faulty variant: loadConfig's catch logs and returns, initialize goes on
LoadConfigSwallowsError ==
  /\ pc = "initialize"
  /\ \/ \E cfg \in ConfigDocuments :
          /\ config' = <<cfg>>
          /\ pc' = "mkdir"
     \/ /\ pc' = "mkdir"
        /\ UNCHANGED config
  /\ UNCHANGED << thrown, detectVars, extractVars, cliVars, validationVars, projectRoot, started, task, taskResult,
                  analysis, sortedGuides, results, inflight, issued, failures,
                  waited, written >>

\* initialize(): this.config = await this.loadConfig(); loadConfig calls
\* process.exit(1) itself when the file cannot be read or parsed
LoadConfig ==
  /\ pc = "initialize"
  /\ \/ \E cfg \in ConfigDocuments :
          /\ config' = <<cfg>>
          /\ pc' = "mkdir"
     \/ /\ pc' = "exit1"
        /\ UNCHANGED config
  /\ UNCHANGED << thrown, detectVars, extractVars, cliVars, validationVars, projectRoot, started, task, taskResult, analysis,
                  sortedGuides, results, inflight, issued, failures,
                  waited, written >>

\* initialize(): new AIClient(..); await fs.mkdir(outputPath); a rejection
\* reaches run()'s catch, which exits 1
EnsureOutputDir ==
  /\ pc = "mkdir"
  /\ \/ pc' = "startAnalyzers"
     \/ pc' = "exit1"
  /\ UNCHANGED << thrown, detectVars, extractVars, cliVars, validationVars, projectRoot, config, started, task, taskResult, analysis,
                  sortedGuides, results, inflight, issued, failures,
                  waited, written >>

\* ----------------------------------------------------- analyzeCodebase
\* the array literal handed to Promise.all: the four calls are made one
\* after the other, synchronously, before anything is awaited
StartAnalyzer ==
  /\ pc = "startAnalyzers"
  /\ started < Len(Analyzers)
  /\ task' = [task EXCEPT ![Analyzers[started + 1]] = "running"]
  /\ started' = started + 1
  /\ pc' = IF started + 1 = Len(Analyzers) THEN "awaitAnalyzers" ELSE pc
  /\ UNCHANGED << thrown, detectVars, extractVars, cliVars, validationVars, projectRoot, config, taskResult, analysis, sortedGuides,
                  results, inflight, issued, failures, waited, written >>

\* an analyzer's promise fulfils, in any order, once run() is suspended
ResolveAnalyzer(t) ==
  /\ pc = "awaitAnalyzers"
  /\ task[t] = "running"
  /\ \E r \in AnalyzerResults(t, projectRoot) :
       taskResult' = [taskResult EXCEPT ![t] = <<r>>]
  /\ task' = [task EXCEPT ![t] = "resolved"]
  /\ UNCHANGED << thrown, detectVars, extractVars, cliVars, validationVars, pc, projectRoot, config, started, analysis, sortedGuides,
                  results, inflight, issued, failures, waited, written >>

\* an analyzer's promise rejects
RejectAnalyzer(t) ==
  /\ pc = "awaitAnalyzers"
  /\ task[t] = "running"
  /\ task' = [task EXCEPT ![t] = "rejected"]
  /\ UNCHANGED << thrown, detectVars, extractVars, cliVars, validationVars, pc, projectRoot, config, started, taskResult, analysis,
                  sortedGuides, results, inflight, issued, failures,
                  waited, written >>

\* an analyzer's promise stays pending for good (its work never finishes)
AnalyzerHangs(t) ==
  /\ pc = "awaitAnalyzers"
  /\ task[t] = "running"
  /\ task' = [task EXCEPT ![t] = "hung"]
  /\ UNCHANGED << thrown, detectVars, extractVars, cliVars, validationVars, pc, projectRoot, config, started, taskResult,
                  analysis, sortedGuides, results, inflight, issued, failures,
                  waited, written >>

\* faulty variant: the join fires as soon as one analyzer has resolved
AnalyzersJoinedOnFirst ==
  /\ pc = "awaitAnalyzers"
  /\ \E t \in AnalyzerSet : task[t] = "resolved"
  /\ pc' = "compile"
  /\ UNCHANGED << thrown, detectVars, extractVars, cliVars, validationVars, projectRoot, config, started, task, taskResult, analysis,
                  sortedGuides, results, inflight, issued, failures,
                  waited, written >>

\* await Promise.all([...]) fulfils: every analyzer has resolved
AnalyzersJoined ==
  /\ pc = "awaitAnalyzers"
  /\ \A t \in AnalyzerSet : task[t] = "resolved"
  /\ pc' = "compile"
  /\ UNCHANGED << thrown, detectVars, extractVars, cliVars, validationVars, projectRoot, config, started, task, taskResult, analysis,
                  sortedGuides, results, inflight, issued, failures,
                  waited, written >>

\* await Promise.all([...]) rejects with the first rejection; nothing in
\* analyzeCodebase catches it, run()'s catch exits 1
AnalyzersFailed ==
  /\ pc = "awaitAnalyzers"
  /\ \E t \in AnalyzerSet : task[t] = "rejected"
  /\ pc' = "exit1"
  /\ UNCHANGED << thrown, detectVars, extractVars, cliVars, validationVars, projectRoot, config, started, task, taskResult, analysis,
                  sortedGuides, results, inflight, issued, failures,
                  waited, written >>

\* faulty variant: the score table is kept on the generator and added to,
\* instead of being a fresh local object of each call
CompileAnalysisAccumulates ==
  /\ pc = "compile"
  /\ LET techStack == taskResult["techStack"][1]
         architecture == taskResult["architecture"][1]
         codeExamples == taskResult["codeExamples"][1]
         fileStructure == taskResult["fileStructure"][1]
         fresh == calculateConfidenceScores(techStack, architecture, codeExamples)
     IN  analysis' =
           << [ structure |-> fileStructure,
                techStack |-> techStack,
                architecture |-> architecture,
                examples |-> codeExamples,
                confidence |->
                  IF analysis = <<>> THEN fresh
                  ELSE [d \in DomainSet |->
                          Min(analysis[1].confidence[d] + fresh[d], ConfidenceCap)],
                completeness |->
                  calculateCompletenessScores(architecture, codeExamples) ] >>
  /\ pc' = "saveAnalysis"
  /\ UNCHANGED << thrown, detectVars, extractVars, cliVars, validationVars, projectRoot, config, started, task, taskResult,
                  sortedGuides, results, inflight, issued, failures,
                  waited, written >>

\* this.analysis = {...}: the results and the two score tables computed
\* from them (detectProjectName/Description catch their own errors)
CompileAnalysis ==
  /\ pc = "compile"
  /\ LET techStack == taskResult["techStack"][1]
         architecture == taskResult["architecture"][1]
         codeExamples == taskResult["codeExamples"][1]
         fileStructure == taskResult["fileStructure"][1]
     IN  analysis' =
           << [ structure |-> fileStructure,
                techStack |-> techStack,
                architecture |-> architecture,
                examples |-> codeExamples,
                confidence |->
                  calculateConfidenceScores(techStack, architecture, codeExamples),
                completeness |->
                  calculateCompletenessScores(architecture, codeExamples) ] >>
  /\ pc' = "saveAnalysis"
  /\ UNCHANGED << thrown, detectVars, extractVars, cliVars, validationVars, projectRoot, config, started, task, taskResult,
                  sortedGuides, results, inflight, issued, failures,
                  waited, written >>

\* await this.saveAnalysisResults(): the write succeeds or rejects
SaveAnalysisResults ==
  /\ pc = "saveAnalysis"
  /\ \/ /\ written' = written \cup {"analysis-results.json"}
        /\ pc' = "generate"
     \/ /\ pc' = "exit1"
        /\ UNCHANGED written
  /\ UNCHANGED << thrown, detectVars, extractVars, cliVars, validationVars, projectRoot, config, started, task, taskResult, analysis,
                  sortedGuides, results, inflight, issued, failures, waited >>

\* ------------------------------------------------- generateDocumentation
\* the guide of the loop iteration in progress
CurrentGuide == sortedGuides[Len(results) + 1]

\* entry of generateDocumentation with an analysis present: the master
\* prompt is read (a rejection reaches run()'s catch) and the guides sorted
BeginGeneration ==
  /\ pc = "generate"
  /\ analysis # <<>>
  /\ \/ /\ sortedGuides' = SortGuides(analysis[1].confidence, Guides)
        /\ pc' = "loop"
     \/ /\ pc' = "exit1"
        /\ UNCHANGED sortedGuides
  /\ UNCHANGED << thrown, detectVars, extractVars, cliVars, validationVars, projectRoot, config, started, task, taskResult, analysis,
                  results, inflight, issued, failures, waited, written >>

\* faulty variant: generateGuide is called without await, the loop goes on to write
IssueCallNoAwait ==
  /\ pc = "loop"
  /\ Len(results) < Len(sortedGuides)
  /\ inflight' = inflight \cup {CurrentGuide.name}
  /\ issued' = Append(issued, CurrentGuide.name)
  /\ pc' = "write"
  /\ UNCHANGED << thrown, detectVars, extractVars, cliVars, validationVars, projectRoot, config, started, task, taskResult, analysis,
                  sortedGuides, results, failures, waited, written >>

\* faulty variant: generateGuide stores targetGuide on this.analysis itself
\* instead of on a copy
IssueCallMarksAnalysis ==
  /\ pc = "loop"
  /\ Len(results) < Len(sortedGuides)
  /\ inflight' = inflight \cup {CurrentGuide.name}
  /\ issued' = Append(issued, CurrentGuide.name)
  /\ analysis' = << [analysis[1] EXCEPT !.structure = [targetGuide |-> CurrentGuide.name]] >>
  /\ pc' = "awaitCall"
  /\ UNCHANGED << thrown, detectVars, extractVars, cliVars, validationVars, projectRoot, config, started, task,
                  taskResult, sortedGuides, results, failures, waited, written >>

\* for (const guide of sortedGuides): await this.generateGuide(..), which
\* awaits this.aiClient.generateContent(guidePrompt)
IssueCall ==
  /\ pc = "loop"
  /\ Len(results) < Len(sortedGuides)
  /\ inflight' = inflight \cup {CurrentGuide.name}
  /\ issued' = Append(issued, CurrentGuide.name)
  /\ pc' = "awaitCall"
  /\ UNCHANGED << thrown, detectVars, extractVars, cliVars, validationVars, projectRoot, config, started, task, taskResult, analysis,
                  sortedGuides, results, failures, waited, written >>

\* the generation call returns content
GenerationSucceeds ==
  /\ pc = "awaitCall"
  /\ \E g \in inflight : inflight' = inflight \ {g}
  /\ waited' = 0
  /\ pc' = "write"
  /\ UNCHANGED << thrown, detectVars, extractVars, cliVars, validationVars, projectRoot, config, started, task, taskResult, analysis,
                  sortedGuides, results, issued, failures, written >>

\* faulty variant: the catch block rethrows, so run()'s catch ends the batch
GenerationFailsAborts ==
  /\ pc = "awaitCall"
  /\ \E g \in inflight :
       /\ inflight' = inflight \ {g}
       /\ failures' = failures \cup {g}
  /\ waited' = 0
  /\ pc' = "exit1"
  /\ UNCHANGED << thrown, detectVars, extractVars, cliVars, validationVars, projectRoot, config, started, task, taskResult, analysis,
                  sortedGuides, results, issued, written >>

\* faulty variant: the catch block asks for a guide once more after its
\* first failure, before recording an error
GenerationFailsRetriesOnce ==
  /\ pc = "awaitCall"
  /\ \E g \in inflight :
       /\ inflight' = inflight \ {g}
       /\ failures' = failures \cup {g}
       /\ results' = IF g \in failures
                       THEN Append(results, [guide |-> g, status |-> "error"])
                       ELSE results
  /\ waited' = 0
  /\ pc' = "loop"
  /\ UNCHANGED << thrown, detectVars, extractVars, cliVars, validationVars, projectRoot, config, started, task, taskResult, analysis,
                  sortedGuides, issued, written >>

\* the generation call rejects: the catch block records the error and the
\* loop goes to the next guide
GenerationFails ==
  /\ pc = "awaitCall"
  /\ \E g \in inflight :
       /\ inflight' = inflight \ {g}
       /\ failures' = failures \cup {g}
       /\ results' = Append(results, [guide |-> g, status |-> "error"])
  /\ waited' = 0
  /\ pc' = "loop"
  /\ UNCHANGED << thrown, detectVars, extractVars, cliVars, validationVars, projectRoot, config, started, task, taskResult, analysis,
                  sortedGuides, issued, written >>

\* await fs.writeFile(filePath, content) succeeds; results.push(success)
WriteSucceeds ==
  /\ pc = "write"
  /\ written' = written \cup {CurrentGuide.name}
  /\ results' =
       Append(results,
              [ guide |-> CurrentGuide.name,
                status |-> "success",
                confidence |->
                  GuideConfidence(analysis[1].confidence, CurrentGuide.name) ])
  /\ pc' = "delay"
  /\ UNCHANGED << thrown, detectVars, extractVars, cliVars, validationVars, projectRoot, config, started, task, taskResult, analysis,
                  sortedGuides, inflight, issued, failures, waited >>

\* faulty variant: results.push(success) stands before the write, and the
\* catch block does not record the guide again
WriteFailsRecordsSuccess ==
  /\ pc = "write"
  /\ failures' = failures \cup {CurrentGuide.name}
  /\ results' =
       Append(results,
              [ guide |-> CurrentGuide.name,
                status |-> "success",
                confidence |->
                  GuideConfidence(analysis[1].confidence, CurrentGuide.name) ])
  /\ pc' = "loop"
  /\ UNCHANGED << thrown, detectVars, extractVars, cliVars, validationVars, projectRoot, config, started, task, taskResult, analysis,
                  sortedGuides, inflight, issued, waited, written >>

\* await fs.writeFile(filePath, content) rejects: same catch block
WriteFails ==
  /\ pc = "write"
  /\ failures' = failures \cup {CurrentGuide.name}
  /\ results' =
       Append(results, [guide |-> CurrentGuide.name, status |-> "error"])
  /\ pc' = "loop"
  /\ UNCHANGED << thrown, detectVars, extractVars, cliVars, validationVars, projectRoot, config, started, task, taskResult, analysis,
                  sortedGuides, inflight, issued, waited, written >>

\* await this.delay(this.config.ai.rateLimitDelay || 100): last statement
\* of the try block, reached after a successful write only
DelayElapsed ==
  /\ pc = "delay"
  /\ waited' = RateLimitDelay(config[1])
  /\ pc' = "loop"
  /\ UNCHANGED << thrown, detectVars, extractVars, cliVars, validationVars, projectRoot, config, started, task, taskResult, analysis,
                  sortedGuides, results, inflight, issued, failures, written >>

\* faulty variant: the index is generated from inside the loop
GenerateIndexEarly ==
  /\ pc = "loop"
  /\ \/ /\ written' = written \cup {"README.md"}
        /\ pc' = "validate"
     \/ /\ pc' = "exit1"
        /\ UNCHANGED written
  /\ UNCHANGED << thrown, detectVars, extractVars, cliVars, validationVars, projectRoot, config, started, task,
                  taskResult, analysis, sortedGuides, results, inflight,
                  issued, failures, waited >>

\* after the loop: await this.generateIndex(results); a rejected write
\* reaches run()'s catch
GenerateIndex ==
  /\ pc = "loop"
  /\ Len(results) = Len(sortedGuides)
  /\ \/ /\ written' = written \cup {"README.md"}
        /\ pc' = "validate"
     \/ /\ pc' = "exit1"
        /\ UNCHANGED written
  /\ UNCHANGED << thrown, detectVars, extractVars, cliVars, validationVars, projectRoot, config, started, task, taskResult, analysis,
                  sortedGuides, results, inflight, issued, failures, waited >>

\* await this.validateDocumentation() taken in one step: Promise.all of the
\* three validators fulfils and run() returns results, or it rejects and
\* run()'s catch exits 1.  run() discards the report, and this step does not
\* record it; StartValidators .. RunReturns below unfold the same call.
ValidateDocumentation ==
  /\ pc = "validate"
  /\ \/ /\ pc' = "done"
        /\ runReturn' = <<results>>
     \/ /\ pc' = "exit1"
        /\ UNCHANGED runReturn
  /\ UNCHANGED << thrown, detectVars, extractVars, cliVars, projectRoot, config, started, task, taskResult, analysis,
                  sortedGuides, results, inflight, issued, failures,
                  waited, written, validator, findings, report >>

\* ------------------------------------------------------ specifications
Next ==
  \/ LoadConfig
  \/ EnsureOutputDir
  \/ StartAnalyzer
  \/ \E t \in AnalyzerSet : ResolveAnalyzer(t)
  \/ \E t \in AnalyzerSet : RejectAnalyzer(t)
  \/ \E t \in AnalyzerSet : AnalyzerHangs(t)
  \/ AnalyzersJoined
  \/ AnalyzersFailed
  \/ CompileAnalysis
  \/ SaveAnalysisResults
  \/ BeginGeneration
  \/ IssueCall
  \/ GenerationSucceeds
  \/ GenerationFails
  \/ WriteSucceeds
  \/ WriteFails
  \/ DelayElapsed
  \/ GenerateIndex
  \/ ValidateDocumentation

\* run() on a project, under every interleaving and outcome
Spec == Init /\ [][Next]_vars

\* analyzeCodebase at the point where the four results are in hand, for
\* every result the analyzers can return on a project of a few domain keys
InitScore ==
  /\ pc = "compile"
  /\ projectRoot \in ScoredProjects
  /\ config = << [rateLimitDelay |-> ConfiguredRateLimitDelay] >>
  /\ started = Len(Analyzers)
  /\ task = [t \in AnalyzerSet |-> "resolved"]
  /\ \E ts \in TechStackResults(projectRoot),
        ar \in ArchitectureResults(projectRoot),
        ce \in CodeExampleResults(projectRoot),
        fs \in FileStructureResults(projectRoot) :
       taskResult =
         [t \in AnalyzerSet |->
            CASE t = "techStack" -> <<ts>>
              [] t = "architecture" -> <<ar>>
              [] t = "codeExamples" -> <<ce>>
              [] t = "fileStructure" -> <<fs>>]
  /\ analysis = <<>>
  /\ sortedGuides = <<>>
  /\ results = <<>>
  /\ inflight = {}
  /\ issued = <<>>
  /\ failures = {}
  /\ waited = 0
  /\ written = {}
  /\ validator = [v \in ValidatorSet |-> "idle"]
  /\ findings = [v \in ValidatorSet |-> <<>>]
  /\ report = <<>>
  /\ runReturn = <<>>
  /\ thrown = <<>>
  /\ catalog = <<>>
  /\ scanned = 0
  /\ domainMatches = <<>>
  /\ candidates = <<>>
  /\ tried = <<>>
  /\ accepted = <<>>
  /\ argv = <<>>
  /\ paths = << Constructor(ParseArguments(argv)) >>

NextScore == CompileAnalysis

\* the scoring step of analyzeCodebase on every bounded input
SpecScore == InitScore /\ [][NextScore]_vars

\* ------------------------------------------------ validateDocumentation
\* what a validation pass can resolve with: the guides it found below
\* threshold
FindingSets == SUBSET {Guides[i].name : i \in 1..MaxFlagged}

\* the three validate(outputPath) calls of the Promise.all array literal:
\* made one after the other, synchronously, before the await
StartValidators ==
  /\ pc = "validate"
  /\ validator' = [v \in ValidatorSet |-> "running"]
  /\ pc' = "awaitValidators"
  /\ UNCHANGED << thrown, detectVars, extractVars, cliVars, projectRoot, config, started, task, taskResult, analysis,
                  sortedGuides, results, inflight, issued, failures, waited,
                  written, findings, report, runReturn >>

\* a validation pass fulfils with its findings
ResolveValidator(v) ==
  /\ pc = "awaitValidators"
  /\ validator[v] = "running"
  /\ \E f \in FindingSets : findings' = [findings EXCEPT ![v] = <<f>>]
  /\ validator' = [validator EXCEPT ![v] = "resolved"]
  /\ UNCHANGED << thrown, detectVars, extractVars, cliVars, pc, projectRoot, config, started, task, taskResult,
                  analysis, sortedGuides, results, inflight, issued, failures,
                  waited, written, report, runReturn >>

\* a validation pass rejects
RejectValidator(v) ==
  /\ pc = "awaitValidators"
  /\ validator[v] = "running"
  /\ validator' = [validator EXCEPT ![v] = "rejected"]
  /\ UNCHANGED << thrown, detectVars, extractVars, cliVars, pc, projectRoot, config, started, task, taskResult,
                  analysis, sortedGuides, results, inflight, issued, failures,
                  waited, written, findings, report, runReturn >>

\* await Promise.all([...]) fulfils; return validationResults
ValidatorsJoined ==
  /\ pc = "awaitValidators"
  /\ \A v \in ValidatorSet : validator[v] = "resolved"
  /\ report' = << [v \in ValidatorSet |-> findings[v][1]] >>
  /\ pc' = "validated"
  /\ UNCHANGED << thrown, detectVars, extractVars, cliVars, projectRoot, config, started, task, taskResult, analysis,
                  sortedGuides, results, inflight, issued, failures, waited,
                  written, validator, findings, runReturn >>

\* await Promise.all([...]) rejects with the first rejection: nothing is
\* returned, run()'s catch exits 1
ValidatorsFailed ==
  /\ pc = "awaitValidators"
  /\ \E v \in ValidatorSet : validator[v] = "rejected"
  /\ pc' = "exit1"
  /\ UNCHANGED << thrown, detectVars, extractVars, cliVars, projectRoot, config, started, task, taskResult, analysis,
                  sortedGuides, results, inflight, issued, failures, waited,
                  written, validator, findings, report, runReturn >>

\* run(): await this.validateDocumentation() drops the report; two fixed
\* lines are logged and results is returned
RunReturns ==
  /\ pc = "validated"
  /\ runReturn' = <<results>>
  /\ pc' = "done"
  /\ UNCHANGED << thrown, detectVars, extractVars, cliVars, projectRoot, config, started, task, taskResult, analysis,
                  sortedGuides, results, inflight, issued, failures, waited,
                  written, validator, findings, report >>

\* this.analysis as analyzeCodebase compiles it from the four results
AnalysisObject(techStack, architecture, codeExamples, fileStructure) ==
  [ structure |-> fileStructure,
    techStack |-> techStack,
    architecture |-> architecture,
    examples |-> codeExamples,
    confidence |->
      calculateConfidenceScores(techStack, architecture, codeExamples),
    completeness |->
      calculateCompletenessScores(architecture, codeExamples) ]

\* the results array the loop leaves when exactly the guides in F failed
ResultsAfterLoop(sorted, confidence, F) ==
  [i \in 1..Len(sorted) |->
     IF sorted[i].name \in F
       THEN [guide |-> sorted[i].name, status |-> "error"]
       ELSE [ guide |-> sorted[i].name,
              status |-> "success",
              confidence |-> GuideConfidence(confidence, sorted[i].name) ]]

\* what the state at the entry of validateDocumentation is, given the
\* configuration, the analyzers' results and the guides that failed
ValidateEntryShape ==
  /\ config # <<>>
  /\ started = Len(Analyzers)
  /\ \A t \in AnalyzerSet : task[t] = "resolved"
  /\ analysis = << AnalysisObject(taskResult["techStack"][1],
                                  taskResult["architecture"][1],
                                  taskResult["codeExamples"][1],
                                  taskResult["fileStructure"][1]) >>
  /\ sortedGuides = SortGuides(analysis[1].confidence, Guides)
  /\ results = ResultsAfterLoop(sortedGuides, analysis[1].confidence, failures)
  /\ inflight = {}
  /\ issued = [i \in 1..Len(Guides) |-> sortedGuides[i].name]
  /\ waited = IF sortedGuides[Len(Guides)].name \in failures
                THEN 0
                ELSE RateLimitDelay(config[1])
  /\ written = {"analysis-results.json", "README.md"} \cup (GuideNames \ failures)
  /\ validator = [v \in ValidatorSet |-> "idle"]
  /\ findings = [v \in ValidatorSet |-> <<>>]
  /\ report = <<>>
  /\ runReturn = <<>>
  /\ thrown = <<>>
  /\ catalog = <<>>
  /\ scanned = 0
  /\ domainMatches = <<>>
  /\ candidates = <<>>
  /\ tried = <<>>
  /\ accepted = <<>>
  /\ argv = <<>>
  /\ paths = << Constructor(ParseArguments(argv)) >>

\* run() about to call validateDocumentation, after a batch in which a few
\* guides failed
InitValidate ==
  /\ pc = "validate"
  /\ projectRoot \in PipelineProjects
  /\ config = << [rateLimitDelay |-> ConfiguredRateLimitDelay] >>
  /\ started = Len(Analyzers)
  /\ task = [t \in AnalyzerSet |-> "resolved"]
  /\ \E ts \in TechStackResults(projectRoot),
        ar \in ArchitectureResults(projectRoot),
        ce \in CodeExampleResults(projectRoot),
        fs \in FileStructureResults(projectRoot) :
       /\ taskResult =
            [t \in AnalyzerSet |->
               CASE t = "techStack" -> <<ts>>
                 [] t = "architecture" -> <<ar>>
                 [] t = "codeExamples" -> <<ce>>
                 [] t = "fileStructure" -> <<fs>>]
       /\ analysis = << AnalysisObject(ts, ar, ce, fs) >>
  /\ sortedGuides = SortGuides(analysis[1].confidence, Guides)
  /\ failures \in {F \in SUBSET GuideNames : Cardinality(F) <= MaxFailedGuides}
  /\ results = ResultsAfterLoop(sortedGuides, analysis[1].confidence, failures)
  /\ inflight = {}
  /\ issued = [i \in 1..Len(Guides) |-> sortedGuides[i].name]
  /\ waited = IF sortedGuides[Len(Guides)].name \in failures
                THEN 0
                ELSE RateLimitDelay(config[1])
  /\ written = {"analysis-results.json", "README.md"} \cup (GuideNames \ failures)
  /\ validator = [v \in ValidatorSet |-> "idle"]
  /\ findings = [v \in ValidatorSet |-> <<>>]
  /\ report = <<>>
  /\ runReturn = <<>>
  /\ thrown = <<>>
  /\ catalog = <<>>
  /\ scanned = 0
  /\ domainMatches = <<>>
  /\ candidates = <<>>
  /\ tried = <<>>
  /\ accepted = <<>>
  /\ argv = <<>>
  /\ paths = << Constructor(ParseArguments(argv)) >>

NextValidate ==
  \/ StartValidators
  \/ \E v \in ValidatorSet : ResolveValidator(v)
  \/ \E v \in ValidatorSet : RejectValidator(v)
  \/ ValidatorsJoined
  \/ ValidatorsFailed
  \/ RunReturns

\* validateDocumentation and the end of run(), pass by pass
SpecValidate == InitValidate /\ [][NextValidate]_vars

\* ------------------------------------------------------- a second run
\* run() is called again on the same generator (the class is the module's
\* export): the earlier run has left its files on disk and its object in
\* this.analysis, and the analyzers have resolved anew
RunAgain ==
  /\ pc = "saveAnalysis"
  /\ pc' = "compile"
  /\ \E ts \in TechStackResults(projectRoot),
        ar \in ArchitectureResults(projectRoot),
        ce \in CodeExampleResults(projectRoot),
        fs \in FileStructureResults(projectRoot) :
       taskResult' =
         [t \in AnalyzerSet |->
            CASE t = "techStack" -> <<ts>>
              [] t = "architecture" -> <<ar>>
              [] t = "codeExamples" -> <<ce>>
              [] t = "fileStructure" -> <<fs>>]
  /\ written' = written \cup {"analysis-results.json", "README.md"}
  /\ UNCHANGED << thrown, detectVars, extractVars, cliVars, validationVars, projectRoot, config, started, task, analysis,
                  sortedGuides, results, inflight, issued, failures, waited >>

\* analyzeCodebase of a first run with the four results in hand
InitRerun ==
  /\ pc = "compile"
  /\ projectRoot \in PipelineProjects
  /\ config = << [rateLimitDelay |-> ConfiguredRateLimitDelay] >>
  /\ started = Len(Analyzers)
  /\ task = [t \in AnalyzerSet |-> "resolved"]
  /\ \E ts \in TechStackResults(projectRoot),
        ar \in ArchitectureResults(projectRoot),
        ce \in CodeExampleResults(projectRoot),
        fs \in FileStructureResults(projectRoot) :
       taskResult =
         [t \in AnalyzerSet |->
            CASE t = "techStack" -> <<ts>>
              [] t = "architecture" -> <<ar>>
              [] t = "codeExamples" -> <<ce>>
              [] t = "fileStructure" -> <<fs>>]
  /\ analysis = <<>>
  /\ sortedGuides = <<>>
  /\ results = <<>>
  /\ inflight = {}
  /\ issued = <<>>
  /\ failures = {}
  /\ waited = 0
  /\ written = {}
  /\ validator = [v \in ValidatorSet |-> "idle"]
  /\ findings = [v \in ValidatorSet |-> <<>>]
  /\ report = <<>>
  /\ runReturn = <<>>
  /\ thrown = <<>>
  /\ catalog = <<>>
  /\ scanned = 0
  /\ domainMatches = <<>>
  /\ candidates = <<>>
  /\ tried = <<>>
  /\ accepted = <<>>
  /\ argv = <<>>
  /\ paths = << Constructor(ParseArguments(argv)) >>

NextRerun ==
  \/ CompileAnalysis
  \/ RunAgain

\* the scoring step of run after run on one generator
SpecRerun == InitRerun /\ [][NextRerun]_vars

\* ---------------------------------------------------- the CLI block
\* command lines of at most MaxArgs arguments
ArgLists == UNION {[1..n -> ArgTokens] : n \in 0..MaxArgs}

\* the CLI block: the arguments are paired into options and the generator
\* is constructed from them; run() is entered
CommandLine ==
  /\ pc = "cli"
  /\ paths' = << Constructor(ParseArguments(argv)) >>
  /\ pc' = "initialize"
  /\ UNCHANGED << thrown, detectVars, extractVars, validationVars, argv, projectRoot, config, started, task,
                  taskResult, analysis, sortedGuides, results, inflight,
                  issued, failures, waited, written >>

\* the script started with some command line, before its CLI block
InitCli ==
  /\ pc = "cli"
  /\ argv \in ArgLists
  /\ paths = <<>>
  /\ projectRoot \in PipelineProjects
  /\ config = <<>>
  /\ started = 0
  /\ task = [t \in AnalyzerSet |-> "idle"]
  /\ taskResult = [t \in AnalyzerSet |-> <<>>]
  /\ analysis = <<>>
  /\ sortedGuides = <<>>
  /\ results = <<>>
  /\ inflight = {}
  /\ issued = <<>>
  /\ failures = {}
  /\ waited = 0
  /\ written = {}
  /\ validator = [v \in ValidatorSet |-> "idle"]
  /\ findings = [v \in ValidatorSet |-> <<>>]
  /\ report = <<>>
  /\ runReturn = <<>>
  /\ thrown = <<>>
  /\ catalog = <<>>
  /\ scanned = 0
  /\ domainMatches = <<>>
  /\ candidates = <<>>
  /\ tried = <<>>
  /\ accepted = <<>>

NextCli == CommandLine

\* the CLI block on every short command line
SpecCli == InitCli /\ [][NextCli]_vars

\* ------------------------------------------- generateDocumentation alone
\* command lines the generation step is followed under: none, and the
\* guide filter of the README
GenerateCommandLines == {<< >>, << "--guides", "authentication,components" >>}

\* run() about to call generateDocumentation: the analysis of a project
\* with full evidence (configuration, patterns, examples) for the domain
\* keys it has, saved
InitGenerate ==
  /\ pc = "generate"
  /\ argv \in GenerateCommandLines
  /\ paths = << Constructor(ParseArguments(argv)) >>
  /\ projectRoot \in ScoredProjects
  /\ config = << [rateLimitDelay |-> ConfiguredRateLimitDelay] >>
  /\ started = Len(Analyzers)
  /\ task = [t \in AnalyzerSet |-> "resolved"]
  /\ taskResult =
       [t \in AnalyzerSet |->
          CASE t = "techStack" -> << [configurations |-> projectRoot] >>
            [] t = "architecture" ->
                 << [patterns |-> [d \in projectRoot |-> MaxPatterns]] >>
            [] t = "codeExamples" -> << [d \in projectRoot |-> MaxExamples] >>
            [] t = "fileStructure" -> << [totalFiles |-> Cardinality(projectRoot)] >>]
  /\ analysis = << AnalysisObject(taskResult["techStack"][1],
                                  taskResult["architecture"][1],
                                  taskResult["codeExamples"][1],
                                  taskResult["fileStructure"][1]) >>
  /\ sortedGuides = <<>>
  /\ results = <<>>
  /\ inflight = {}
  /\ issued = <<>>
  /\ failures = {}
  /\ waited = 0
  /\ written = {"analysis-results.json"}
  /\ validator = [v \in ValidatorSet |-> "idle"]
  /\ findings = [v \in ValidatorSet |-> <<>>]
  /\ report = <<>>
  /\ runReturn = <<>>
  /\ thrown = <<>>
  /\ catalog = <<>>
  /\ scanned = 0
  /\ domainMatches = <<>>
  /\ candidates = <<>>
  /\ tried = <<>>
  /\ accepted = <<>>

NextGenerate ==
  \/ BeginGeneration
  \/ IssueCall
  \/ GenerationSucceeds
  \/ GenerationFails
  \/ WriteSucceeds
  \/ WriteFails
  \/ DelayElapsed
  \/ GenerateIndex

\* generateDocumentation on the analysis of every small project
SpecGenerate == InitGenerate /\ [][NextGenerate]_vars

\* --------------------------------------- ArchitecturePatternDetector
\* the longest catalog considered
MaxFiles == 2

\* rules of extraction.architecturalPatterns: two filePatterns, a
\* functionPattern and an importPattern of authentication, a filePattern
\* and a functionPattern of components
PatternRules ==
  { [domain |-> "authentication", dimension |-> "filePattern", matcher |-> "**/auth/**"],
    [domain |-> "authentication", dimension |-> "filePattern", matcher |-> "**/login/**"],
    [domain |-> "authentication", dimension |-> "functionPattern", matcher |-> "login"],
    [domain |-> "authentication", dimension |-> "importPattern", matcher |-> "auth"],
    [domain |-> "components", dimension |-> "filePattern", matcher |-> "**/components/**"],
    [domain |-> "components", dimension |-> "functionPattern", matcher |-> "render"] }

\* the rule domains, in the order of the configuration
RuleDomains == << "authentication", "components" >>

\* the i-th path of a catalog: paths are unique keys
FilePath(i) == i

\* the catalog of n files of which the i-th satisfies the rules sat[i]
CatalogOf(n, sat) ==
  [i \in 1..n |-> [path |-> FilePath(i), satisfies |-> sat[i]]]

\* the rules of a domain that a file satisfies
MatchedRules(file, domain) == {r \in file.satisfies : r.domain = domain}

\* faulty variant: a path-level match alone counts
CorroboratedPathOnly(file, domain) ==
  \E r \in MatchedRules(file, domain) : r.dimension = "filePattern"

\* path-level and content-level corroboration
Corroborated(file, domain) ==
  /\ \E r \in MatchedRules(file, domain) : r.dimension = "filePattern"
  /\ \E r \in MatchedRules(file, domain) :
       r.dimension \in {"functionPattern", "importPattern"}

\* the matches of one file appended to matches: domain k of RuleDomains
\* onward, one match per domain, none for a pair that already has one
RECURSIVE AddMatches(_, _, _)
AddMatches(matches, file, k) ==
  IF k > Len(RuleDomains) THEN matches
  ELSE LET domain == RuleDomains[k]
           seen == \E j \in 1..Len(matches) :
                     /\ matches[j].domain = domain
                     /\ matches[j].file = file.path
       IN  AddMatches(
             IF Corroborated(file, domain) /\ ~seen
               THEN Append(matches, [ domain |-> domain,
                                      file |-> file.path,
                                      rules |-> MatchedRules(file, domain) ])
               ELSE matches,
             file, k + 1)

\* detect: the next file of the catalog is examined
DetectFile ==
  /\ pc = "detect"
  /\ scanned < Len(catalog)
  /\ domainMatches' = AddMatches(domainMatches, catalog[scanned + 1], 1)
  /\ scanned' = scanned + 1
  /\ UNCHANGED << thrown, extractVars, cliVars, validationVars, pc, catalog,
                  projectRoot, config, started, task, taskResult, analysis,
                  sortedGuides, results, inflight, issued, failures, waited,
                  written >>

\* detect: the catalog is exhausted, the matches are returned
DetectDone ==
  /\ pc = "detect"
  /\ scanned = Len(catalog)
  /\ pc' = "detected"
  /\ UNCHANGED << thrown, detectVars, extractVars, cliVars, validationVars,
                  projectRoot, config, started, task, taskResult, analysis,
                  sortedGuides, results, inflight, issued, failures, waited,
                  written >>

\* the analyzer's detect called on a sealed catalog
InitDetect ==
  /\ pc = "detect"
  /\ \E n \in 0..MaxFiles :
       \E sat \in [1..n -> SUBSET PatternRules] : catalog = CatalogOf(n, sat)
  /\ scanned = 0
  /\ domainMatches = <<>>
  /\ candidates = <<>>
  /\ tried = <<>>
  /\ accepted = <<>>
  /\ argv = <<>>
  /\ paths = << Constructor(ParseArguments(argv)) >>
  /\ projectRoot \in PipelineProjects
  /\ config = << [rateLimitDelay |-> ConfiguredRateLimitDelay] >>
  /\ started = Len(Analyzers)
  /\ task = [t \in AnalyzerSet |-> "running"]
  /\ taskResult = [t \in AnalyzerSet |-> <<>>]
  /\ analysis = <<>>
  /\ sortedGuides = <<>>
  /\ results = <<>>
  /\ inflight = {}
  /\ issued = <<>>
  /\ failures = {}
  /\ waited = 0
  /\ written = {}
  /\ validator = [v \in ValidatorSet |-> "idle"]
  /\ findings = [v \in ValidatorSet |-> <<>>]
  /\ report = <<>>
  /\ runReturn = <<>>
  /\ thrown = <<>>

NextDetect ==
  \/ DetectFile
  \/ DetectDone

\* detect on every small catalog
SpecDetect == InitDetect /\ [][NextDetect]_vars

\* ---------------------------------------------- CodeExampleExtractor
\* the most candidates a domain has
MaxCandidates == 6

RuleDomainSet == {RuleDomains[i] : i \in 1..Len(RuleDomains)}

\* a domain's candidates in ranked order: the k-th is the file ranked k,
\* whose excerpt passes the syntax check or does not
RankedCandidates(n, ok) == [k \in 1..n |-> [file |-> FilePath(k), syntaxOk |-> ok[k]]]

\* every ranked candidate list of at most MaxCandidates candidates
CandidateLists ==
  UNION {{RankedCandidates(n, ok) : ok \in [1..n -> BOOLEAN]} :
           n \in 0..MaxCandidates}

\* faulty variant: extraction goes on until the candidates run out
DomainFinishedWhenExhausted(d) == tried[d] = Len(candidates[d])

\* extraction for a domain is over: enough examples, or no candidate left
DomainFinished(d) ==
  \/ Len(accepted[d]) >= MaxExamplesPerDomain
  \/ tried[d] = Len(candidates[d])

\* the domain extract is working on: the first one not finished
CurrentDomain ==
  RuleDomains[CHOOSE i \in 1..Len(RuleDomains) :
                /\ ~DomainFinished(RuleDomains[i])
                /\ \A j \in 1..(i - 1) : DomainFinished(RuleDomains[j])]

\* the candidate extract tries next
NextCandidate == candidates[CurrentDomain][tried[CurrentDomain] + 1]

\* the next ranked candidate passes the syntax check and is accepted
AcceptCandidate ==
  /\ pc = "extract"
  /\ \E d \in RuleDomainSet : ~DomainFinished(d)
  /\ NextCandidate.syntaxOk
  /\ accepted' = [accepted EXCEPT ![CurrentDomain] = Append(@, NextCandidate.file)]
  /\ tried' = [tried EXCEPT ![CurrentDomain] = @ + 1]
  /\ UNCHANGED << thrown, detectVars, cliVars, validationVars, pc, candidates,
                  projectRoot, config, started, task, taskResult, analysis,
                  sortedGuides, results, inflight, issued, failures, waited,
                  written >>

\* the next ranked candidate fails the syntax check and is discarded
DiscardCandidate ==
  /\ pc = "extract"
  /\ \E d \in RuleDomainSet : ~DomainFinished(d)
  /\ ~NextCandidate.syntaxOk
  /\ tried' = [tried EXCEPT ![CurrentDomain] = @ + 1]
  /\ UNCHANGED << thrown, detectVars, cliVars, validationVars, pc, candidates,
                  accepted, projectRoot, config, started, task, taskResult,
                  analysis, sortedGuides, results, inflight, issued, failures,
                  waited, written >>

\* every domain is finished: the examples are returned
ExtractDone ==
  /\ pc = "extract"
  /\ \A d \in RuleDomainSet : DomainFinished(d)
  /\ pc' = "extracted"
  /\ UNCHANGED << thrown, detectVars, extractVars, cliVars, validationVars,
                  projectRoot, config, started, task, taskResult, analysis,
                  sortedGuides, results, inflight, issued, failures, waited,
                  written >>

\* the extractor's pass about to start on ranked candidates
InitExtract ==
  /\ pc = "extract"
  /\ catalog = <<>>
  /\ scanned = 0
  /\ domainMatches = <<>>
  /\ candidates \in [RuleDomainSet -> CandidateLists]
  /\ tried = [d \in RuleDomainSet |-> 0]
  /\ accepted = [d \in RuleDomainSet |-> <<>>]
  /\ argv = <<>>
  /\ paths = << Constructor(ParseArguments(argv)) >>
  /\ projectRoot \in PipelineProjects
  /\ config = << [rateLimitDelay |-> ConfiguredRateLimitDelay] >>
  /\ started = Len(Analyzers)
  /\ task = [t \in AnalyzerSet |-> "running"]
  /\ taskResult = [t \in AnalyzerSet |-> <<>>]
  /\ analysis = <<>>
  /\ sortedGuides = <<>>
  /\ results = <<>>
  /\ inflight = {}
  /\ issued = <<>>
  /\ failures = {}
  /\ waited = 0
  /\ written = {}
  /\ validator = [v \in ValidatorSet |-> "idle"]
  /\ findings = [v \in ValidatorSet |-> <<>>]
  /\ report = <<>>
  /\ runReturn = <<>>
  /\ thrown = <<>>

NextExtract ==
  \/ AcceptCandidate
  \/ DiscardCandidate
  \/ ExtractDone

\* extract on every short ranked candidate list
SpecExtract == InitExtract /\ [][NextExtract]_vars

\* ------------------------------- generateDocumentation called directly
\* the message of the guard's Error
AnalysisRequired == "Analysis must be completed before generating documentation"

\* files an output directory can hold from earlier use
OutputFiles == GuideNames \cup {"analysis-results.json", "README.md"}

\* faulty variant: no guard; the master prompt is read and the sort's
\* comparator fails on this.analysis.metadata
GenerateWithoutAnalysisUnguarded ==
  /\ pc = "generate"
  /\ analysis = <<>>
  /\ thrown' = << "Cannot read properties of null (reading 'metadata')" >>
  /\ pc' = "rejected"
  /\ UNCHANGED << detectVars, extractVars, cliVars, validationVars,
                  projectRoot, config, started, task, taskResult, analysis,
                  sortedGuides, results, inflight, issued, failures, waited,
                  written >>

\* if (!this.analysis) throw new Error(...): the async function rejects
\* before anything else is done
GenerateWithoutAnalysis ==
  /\ pc = "generate"
  /\ analysis = <<>>
  /\ thrown' = << AnalysisRequired >>
  /\ pc' = "rejected"
  /\ UNCHANGED << detectVars, extractVars, cliVars, validationVars,
                  projectRoot, config, started, task, taskResult, analysis,
                  sortedGuides, results, inflight, issued, failures, waited,
                  written >>

\* a caller that holds a generator (the class is the module's export),
\* initialized or not, over any output directory, calls
\* generateDocumentation without an analysis
InitDirect ==
  /\ pc = "generate"
  /\ argv = <<>>
  /\ paths = << Constructor(ParseArguments(argv)) >>
  /\ projectRoot \in PipelineProjects
  /\ config \in {<<>>} \cup {<<cfg>> : cfg \in ConfigDocuments}
  /\ started = 0
  /\ task = [t \in AnalyzerSet |-> "idle"]
  /\ taskResult = [t \in AnalyzerSet |-> <<>>]
  /\ analysis = <<>>
  /\ sortedGuides = <<>>
  /\ results = <<>>
  /\ inflight = {}
  /\ issued = <<>>
  /\ failures = {}
  /\ waited = 0
  /\ written \in SUBSET OutputFiles
  /\ validator = [v \in ValidatorSet |-> "idle"]
  /\ findings = [v \in ValidatorSet |-> <<>>]
  /\ report = <<>>
  /\ runReturn = <<>>
  /\ catalog = <<>>
  /\ scanned = 0
  /\ domainMatches = <<>>
  /\ candidates = <<>>
  /\ tried = <<>>
  /\ accepted = <<>>
  /\ thrown = <<>>

NextDirect == GenerateWithoutAnalysis

\* generateDocumentation called on a generator that has no analysis
SpecDirect == InitDirect /\ [][NextDirect]_vars

\* ------------------------------------------ generateDocumentation, fair
\* generateDocumentation entered by run() with no command line arguments
InitTerminate ==
  /\ InitGenerate
  /\ argv = << >>
  /\ projectRoot \in PipelineProjects

\* the steps of the loop and the index step that follows it
LoopStep ==
  \/ IssueCall
  \/ GenerationSucceeds
  \/ GenerationFails
  \/ WriteSucceeds
  \/ WriteFails
  \/ DelayElapsed
  \/ GenerateIndex

\* every pending call, write and timer of the loop settles, and the event
\* loop runs the continuation that waits for it
FairSpecGenerate ==
  InitTerminate /\ [][NextGenerate]_vars /\ WF_vars(LoopStep)

\* ------------------------------------------------------------- claims
\* the inputs the scores of the current analysis were computed from
InPatterns(d) == ArrayLength(taskResult["architecture"][1].patterns, d)

InExamples(d) == ArrayLength(taskResult["codeExamples"][1], d)

InConfig(d) == d \in taskResult["techStack"][1].configurations

Bit(b) == IF b THEN 1 ELSE 0

AllGuidesInOrder == [i \in 1..Len(Guides) |-> sortedGuides[i].name]

\* C1: a guide whose generation call or file write failed has a result with
\* status 'error', and a failure never ends the batch: once the run has left
\* the loop, or exited after a failure, every guide of the sorted order was
\* requested, in that order.
C1_FailureRecordedBatchContinues ==
  /\ \A g \in failures :
       \E i \in 1..Len(results) :
         results[i].guide = g /\ results[i].status = "error"
  /\ issued = [i \in 1..Len(issued) |-> sortedGuides[i].name]
  /\ (failures # {} /\ pc \in {"validate", "done", "exit1"})
       => issued = AllGuidesInOrder

\* C1 witness: the first guide failed, the last one succeeded, all ten asked
C1_Witness ==
  /\ pc = "done"
  /\ Len(results) = Len(Guides)
  /\ results[1].status = "error"
  /\ results[Len(Guides)].status = "success"
  /\ sortedGuides[1].name \in failures
  /\ issued = AllGuidesInOrder

\* C2: for each of the ten domains the confidence score is
\* 0.4*hasPatterns + 0.4*hasExamples + 0.2*hasConfig clamped to 1 (in
\* tenths), and patterns plus examples give at least 0.8.
C2_ConfidenceFormula ==
  analysis # <<>> =>
    /\ DOMAIN analysis[1].confidence = DomainSet
    /\ \A d \in DomainSet :
         LET hp == InPatterns(d) > 0
             he == InExamples(d) > 0
             hc == InConfig(d)
             c == analysis[1].confidence[d]
         IN  /\ c = Min(4 * Bit(hp) + 4 * Bit(he) + 2 * Bit(hc), 10)
             /\ c >= 0 /\ c <= 10
             /\ (hp /\ he) => c >= 8

\* C2 witness: components has patterns and examples, no configuration: 0.8
C2_Witness ==
  /\ analysis # <<>>
  /\ InPatterns("components") > 0
  /\ InExamples("components") > 0
  /\ ~InConfig("components")
  /\ analysis[1].confidence["components"] = 8

C4_CompletenessRangeAndZero ==
  analysis # <<>> =>
    \A d \in DOMAIN analysis[1].completeness :
      LET c == analysis[1].completeness[d]
      IN  /\ c.den > 0
          /\ RatLeq(Zero, c)
          /\ RatLeq(c, One)
          /\ InPatterns(d) >= 1 => (RatEq(c, Zero) <=> InExamples(d) = 0)

\* C4 witness: patterns without examples score 0 ("detected, unverified")
C4_Witness ==
  /\ analysis # <<>>
  /\ \E d \in DOMAIN analysis[1].completeness :
       /\ InPatterns(d) >= 1
       /\ InExamples(d) = 0
       /\ RatEq(analysis[1].completeness[d], Zero)

\* C5: turning one of the three inputs of a domain from false to true, the
\* other two unchanged, never lowers that domain's confidence score.
C5_ConfidenceMonotone ==
  analysis # <<>> =>
    \A d \in DomainSet :
      LET ts == taskResult["techStack"][1]
          ar == taskResult["architecture"][1]
          ce == taskResult["codeExamples"][1]
          c == analysis[1].confidence[d]
          arUp == [patterns |->
                     [k \in DOMAIN ar.patterns \cup {d} |->
                        IF k = d THEN 1 ELSE ar.patterns[k]]]
          ceUp == [k \in DOMAIN ce \cup {d} |-> IF k = d THEN 1 ELSE ce[k]]
          tsUp == [configurations |-> ts.configurations \cup {d}]
      IN  /\ InPatterns(d) = 0 => calculateConfidenceScores(ts, arUp, ce)[d] >= c
          /\ InExamples(d) = 0 => calculateConfidenceScores(ts, ar, ceUp)[d] >= c
          /\ ~InConfig(d) => calculateConfidenceScores(tsUp, ar, ce)[d] >= c

\* C5 witness: a scored domain with examples only, each flag still to raise
C5_Witness ==
  /\ analysis # <<>>
  /\ \E d \in DomainSet :
       /\ InPatterns(d) = 0
       /\ InExamples(d) > 0
       /\ ~InConfig(d)
       /\ analysis[1].confidence[d] = 4

\* C6: at most one generation call is outstanding, and it is the call of
\* the guide that follows the guides whose results are already recorded.
C6_CallsSequential ==
  /\ Cardinality(inflight) <= 1
  /\ \A g \in inflight :
       /\ pc = "awaitCall"
       /\ Len(issued) = Len(results) + 1
       /\ g = sortedGuides[Len(results) + 1].name
  /\ Len(issued) <= Len(results) + 1

\* C6 witness: the third call is outstanding after one error, one success
C6_Witness ==
  /\ Cardinality(inflight) = 1
  /\ Len(results) = 2
  /\ results[1].status = "error"
  /\ results[2].status = "success"
  /\ Len(issued) = 3

\* C7 as claimed: whenever a second or later generation call is
\* outstanding, the rate-limit delay was slept since the previous call ended.
C7_DelayBetweenCalls ==
  (inflight # {} /\ Len(issued) > 1)
    => waited = RateLimitDelay(config[1])

\* C8 as claimed: the code extractor is not started before the
\* architecture analyzer has resolved.
C8_ExtractorStagedBehindArchitecture ==
  task["codeExamples"] # "idle" => task["architecture"] = "resolved"

\* C9 as claimed: no detector is started before the file-structure scan
\* has completed.
C9_ScanCompleteBeforeDetectors ==
  \A t \in {"techStack", "architecture", "codeExamples"} :
    task[t] # "idle" => task["fileStructure"] = "resolved"

\* C10: the scores are computed only when all four analyzer tasks have
\* resolved, and from the values the tasks resolved with.
C10_ScoringAfterJoin ==
  (pc = "compile" \/ analysis # <<>>) =>
    /\ \A t \in AnalyzerSet : task[t] = "resolved" /\ taskResult[t] # <<>>
    /\ analysis # <<>> =>
         /\ analysis[1].confidence =
              calculateConfidenceScores(taskResult["techStack"][1],
                                        taskResult["architecture"][1],
                                        taskResult["codeExamples"][1])
         /\ analysis[1].completeness =
              calculateCompletenessScores(taskResult["architecture"][1],
                                          taskResult["codeExamples"][1])
         /\ analysis[1].structure = taskResult["fileStructure"][1]

\* C10 witness: the analysis holds scores with patterns and examples found
C10_Witness ==
  /\ pc = "saveAnalysis"
  /\ analysis # <<>>
  /\ \A t \in AnalyzerSet : task[t] = "resolved"
  /\ \E d \in DomainSet : analysis[1].confidence[d] = 8

\* C11 as claimed: once analyzeCodebase has produced and saved its result,
\* no later failure makes run() exit non-zero.
C11_NoFatalExitAfterAnalysis ==
  "analysis-results.json" \in written => pc # "exit1"

\* C12 as claimed: the rejection of an analyzer task is not fatal, the run
\* does not exit on it.
C12_AnalyzerFailureNotFatal ==
  (\E t \in AnalyzerSet : task[t] = "rejected") => pc # "exit1"

\* C13: while no configuration is loaded the run is in initialize or has
\* exited with status 1, and then no analyzer was started, no generation
\* call issued and nothing written.
C13_ConfigErrorFatalBeforeScan ==
  config = <<>> =>
    /\ pc \in {"initialize", "exit1"}
    /\ started = 0
    /\ \A t \in AnalyzerSet : task[t] = "idle"
    /\ analysis = <<>>
    /\ issued = <<>>
    /\ inflight = {}
    /\ written = {}

\* C13 witness: the run has exited 1 on a configuration that did not load
C13_Witness ==
  /\ pc = "exit1"
  /\ config = <<>>
  /\ started = 0
  /\ written = {}

\* C14 as claimed: analyzeCodebase always gets past the wait for its
\* analyzers, also when one of them never settles (a timeout abandons it).
C14_AnalysisCompletesDespiteHungTask ==
  (pc = "awaitAnalyzers" /\ \E t \in AnalyzerSet : task[t] = "hung")
    => ENABLED Next

\* where run() stands from the start of validateDocumentation onwards
ValidationPcs == {"validate", "awaitValidators", "validated", "done"}

\* C15: validation starts only when the analysis is complete, every guide
\* has a recorded result, no call is outstanding and the index is written;
\* from then on no analysis or generation state changes.
C15_ValidationRunsLast ==
  [][ /\ pc' \in ValidationPcs =>
           /\ analysis' # <<>>
           /\ \A t \in AnalyzerSet : task'[t] = "resolved"
           /\ "analysis-results.json" \in written'
           /\ Len(results') = Len(Guides)
           /\ {results'[i].guide : i \in 1..Len(results')} = GuideNames
           /\ \A i \in 1..Len(results') :
                results'[i].status \in {"success", "error"}
           /\ inflight' = {}
           /\ "README.md" \in written'
      /\ pc \in ValidationPcs =>
           UNCHANGED << analysis, task, taskResult, sortedGuides, results,
                        inflight, issued, failures, written >>
    ]_vars

\* C15 witness: validation is over after a batch with a failed guide
C15_Witness ==
  /\ pc = "done"
  /\ Len(results) = Len(Guides)
  /\ "README.md" \in written
  /\ Cardinality(failures) = 2

\* C20: once this.analysis is assigned, no step of generation, indexing or
\* validation changes it.
C20_AnalysisImmutable ==
  [][analysis # <<>> => analysis' = analysis]_vars

\* C20 witness: the run is over, guides failed and succeeded, and the
\* analysis still holds the scores computed from the analyzers' results
C20_Witness ==
  /\ pc = "done"
  /\ failures # {}
  /\ \E g \in GuideNames : g \in written
  /\ analysis # <<>>
  /\ analysis[1].confidence =
       calculateConfidenceScores(taskResult["techStack"][1],
                                 taskResult["architecture"][1],
                                 taskResult["codeExamples"][1])
  /\ analysis[1].examples = taskResult["codeExamples"][1]

\* review flags in what run() returns: result entries that carry one
SurfacedFlags ==
  IF runReturn = <<>> THEN {}
  ELSE {runReturn[1][i].guide :
          i \in {j \in 1..Len(runReturn[1]) :
                   "reviewRequired" \in DOMAIN runReturn[1][j]}}

\* C16 as claimed: when validation is over, the findings of every pass that
\* produced some are in the report, whatever happened to the other passes.
C16_FindingsUnioned ==
  pc \in {"validated", "done", "exit1"} =>
    \A v \in ValidatorSet :
      findings[v] # <<>> =>
        /\ report # <<>>
        /\ report[1][v] = findings[v][1]

\* C17 as claimed: a guide that validation reported below threshold is
\* flagged for review in what run() returns.
C17_QualityGateSurfaced ==
  (pc = "done" /\ report # <<>>) =>
    \A v \in ValidatorSet : report[1][v] \subseteq SurfacedFlags

\* C18 as claimed: the scored analysis carries, for every domain, a
\* reviewRequired flag that is true exactly when the domain's confidence is
\* below the configured threshold.
C18_ReviewRequiredBelowThreshold ==
  analysis # <<>> =>
    /\ "reviewRequired" \in DOMAIN analysis[1]
    /\ \A d \in DomainSet :
         analysis[1].reviewRequired[d] =
           (analysis[1].confidence[d] < ConfidenceThreshold)

\* the inputs of the scoring step about to run are those the analysis at
\* hand was scored from
SameScoringInputs ==
  /\ analysis # <<>>
  /\ taskResult["techStack"][1] = analysis[1].techStack
  /\ taskResult["architecture"][1] = analysis[1].architecture
  /\ taskResult["codeExamples"][1] = analysis[1].examples

\* C19: a scoring step over the tech-stack, architecture and code-example
\* inputs of the run before it yields the same confidence and completeness
\* tables as that run, whatever that run left behind.
C19_ScoringDeterministic ==
  [][(pc = "compile" /\ pc' = "saveAnalysis" /\ SameScoringInputs) =>
       /\ analysis'[1].confidence = analysis[1].confidence
       /\ analysis'[1].completeness = analysis[1].completeness]_vars

\* a second run stands at its scoring step with the inputs of the first,
\* whose files and non-zero scores are still there
C19_Witness ==
  /\ pc = "compile"
  /\ SameScoringInputs
  /\ "analysis-results.json" \in written
  /\ \E d \in DomainSet : analysis[1].confidence[d] = PatternWeight + ExampleWeight
  /\ \E d \in DOMAIN analysis[1].completeness : ~RatEq(analysis[1].completeness[d], Zero)

\* C21 as claimed: started with --config P --output D, the generator
\* reads its configuration from P and writes under D.
C21_OptionsSelectInputs ==
  \A P, D \in OptionValues :
    (pc # "cli" /\ argv = << "--config", P, "--output", D >>) =>
      /\ paths[1].configPath = P
      /\ paths[1].outputPath = D

\* the domain a guide documents: the i-th guide goes with the i-th domain
DomainOfGuide(name) ==
  Domains[CHOOSE i \in 1..Len(Guides) : Guides[i].name = name]

\* value.split(','): the domains a guide filter names
FilterDomains(value) ==
  IF value = "authentication,components"
    THEN {"authentication", "components"}
    ELSE {value}

\* C22 as claimed: with a guide filter on the command line, generation
\* calls are issued only for the guides of the domains it names.
C22_FilterRestrictsGuides ==
  \A i \in 1..Len(argv) - 1 :
    argv[i] = "--guides" =>
      \A k \in 1..Len(issued) :
        DomainOfGuide(issued[k]) \in FilterDomains(argv[i + 1])

\* the catalog entry a match refers to
MatchedFile(m) == catalog[CHOOSE i \in 1..Len(catalog) : catalog[i].path = m.file]

\* C23: every DomainMatch is for a file that satisfies a filePattern rule
\* and a functionPattern or importPattern rule of the match's domain, and
\* no two matches are for the same (domain, file) pair.
C23_MatchNeedsPathAndContent ==
  /\ \A j \in 1..Len(domainMatches) :
       LET m == domainMatches[j]
       IN  /\ \E r \in MatchedFile(m).satisfies :
                r.domain = m.domain /\ r.dimension = "filePattern"
           /\ \E r \in MatchedFile(m).satisfies :
                /\ r.domain = m.domain
                /\ r.dimension \in {"functionPattern", "importPattern"}
  /\ \A j, k \in 1..Len(domainMatches) :
       ( /\ domainMatches[j].domain = domainMatches[k].domain
         /\ domainMatches[j].file = domainMatches[k].file ) => j = k

\* detect has finished on a catalog with a file matched through two
\* filePattern rules and a content rule, and a file that only sits in a
\* matching directory and has no match
C23_Witness ==
  /\ pc = "detected"
  /\ \E j \in 1..Len(domainMatches) :
       Cardinality({r \in domainMatches[j].rules : r.dimension = "filePattern"}) = 2
  /\ \E i \in 1..Len(catalog) :
       /\ \E r \in catalog[i].satisfies : r.dimension = "filePattern"
       /\ \A j \in 1..Len(domainMatches) : domainMatches[j].file # catalog[i].path

\* the files of the first n candidates of s that pass the syntax check
RECURSIVE FirstAccepted(_, _)
FirstAccepted(s, n) ==
  IF s = <<>> \/ n = 0 THEN <<>>
  ELSE IF Head(s).syntaxOk
    THEN <<Head(s).file>> \o FirstAccepted(Tail(s), n - 1)
    ELSE FirstAccepted(Tail(s), n)

\* C24: no domain ever has more than maxExamplesPerDomain accepted
\* examples or more tries than candidates; the pass is never stuck before
\* its end; and at its end every domain holds, in ranked order, its first
\* maxExamplesPerDomain candidates that pass the syntax check, or all of
\* them when there are fewer.
C24_ExtractionBounded ==
  pc \in {"extract", "extracted"} =>
    /\ \A d \in RuleDomainSet :
         /\ Len(accepted[d]) <= MaxExamplesPerDomain
         /\ tried[d] <= Len(candidates[d])
    /\ pc = "extract" => ENABLED NextExtract
    /\ pc = "extracted" =>
         \A d \in RuleDomainSet :
           /\ accepted[d] = FirstAccepted(candidates[d], MaxExamplesPerDomain)
           /\ \/ Len(accepted[d]) = MaxExamplesPerDomain
              \/ tried[d] = Len(candidates[d])

\* the pass has ended with one domain at its limit and a candidate left
\* untried, and another where a discarded candidate was followed by an
\* accepted one
C24_Witness ==
  /\ pc = "extracted"
  /\ \E d \in RuleDomainSet :
       /\ Len(accepted[d]) = MaxExamplesPerDomain
       /\ tried[d] < Len(candidates[d])
  /\ \E d \in RuleDomainSet :
       \E k \in 1..(Len(candidates[d]) - 1) :
         /\ accepted[d] # <<>>
         /\ ~candidates[d][k].syntaxOk
         /\ candidates[d][k + 1].file = Head(accepted[d])

\* a guide's priority
PriorityOfGuide(name) ==
  Guides[CHOOSE i \in 1..Len(Guides) : Guides[i].name = name].priority

\* C25 as claimed: generation calls go by priority ascending and, within a
\* priority, by the confidence of the guide's domain descending.
C25_OrderByPriorityThenConfidence ==
  analysis # <<>> =>
    \A i, j \in 1..Len(issued) :
      i < j =>
        /\ PriorityOfGuide(issued[i]) <= PriorityOfGuide(issued[j])
        /\ PriorityOfGuide(issued[i]) = PriorityOfGuide(issued[j]) =>
             analysis[1].confidence[DomainOfGuide(issued[i])] >=
               analysis[1].confidence[DomainOfGuide(issued[j])]

\* C26 as claimed: the confidence recorded with a successfully generated
\* guide is the confidence score of that guide's domain.
C26_RecordedConfidenceIsDomainScore ==
  analysis # <<>> =>
    \A k \in 1..Len(results) :
      results[k].status = "success" =>
        results[k].confidence =
          analysis[1].confidence[DomainOfGuide(results[k].guide)]

\* C27 as claimed: after analyzeCodebase the completeness table and the
\* confidence table have the same domains, the ten fixed ones.
C27_ScoreTablesShareDomains ==
  analysis # <<>> =>
    /\ DOMAIN analysis[1].completeness = DOMAIN analysis[1].confidence
    /\ DOMAIN analysis[1].completeness = DomainSet

\* generateDocumentation stands at its index step, or is past it
IndexStepReached ==
  \/ pc = "loop" /\ Len(results) = Len(sortedGuides)
  \/ "README.md" \in written

C29_GuardRejectsWithoutEffect ==
  [][(pc = "generate" /\ analysis = <<>>) =>
       /\ pc' = "rejected"
       /\ thrown' = << AnalysisRequired >>
       /\ UNCHANGED << issued, inflight, written, results, sortedGuides,
                       analysis, config, paths, failures >>]_vars

\* the call was made on an initialized generator over an output directory
\* that held an index but no guide, and was rejected
C29_Witness ==
  /\ pc = "rejected"
  /\ thrown # <<>>
  /\ config # <<>>
  /\ written = {"README.md"}
  /\ issued = <<>>

\* generateDocumentation has returned or thrown
GenerationOver == pc \in {"validate", "exit1"}

\* every guide was requested, each once
OneCallPerGuide ==
  /\ Len(issued) = Len(Guides)
  /\ {issued[k] : k \in 1..Len(issued)} = GuideNames

====
